---------------------------- MODULE Spec2Model ----------------------------
(***************************************************************************)
(* A model of cfapi.py, the Codeforces API wrapper: the canonical query    *)
(* encoder, the request signer, the transport (request_api, get_page) and  *)
(* the endpoint methods with the records they construct.                   *)
(*                                                                         *)
(* A Python str is a sequence of one-character strings, compared by code   *)
(* point as Python compares it.  A Python value is a tagged record:        *)
(*   [t |-> "None"], [t |-> "int", v |-> 7], [t |-> "bool", v |-> TRUE],   *)
(*   [t |-> "str", v |-> <<"a","b">>], [t |-> "list", v |-> <<...>>].      *)
(* A dict of keyword arguments is the sequence of its <<name, value>>      *)
(* items in insertion order, with distinct names.                          *)
(***************************************************************************)
EXTENDS Integers, Sequences, FiniteSets, Bags, TLC

VARIABLES
  key,        \* CodeforcesAPI._key: None or a str
  secret,     \* CodeforcesAPI._secret: None or a str
  lang,       \* CodeforcesAPI._lang
  last_api,   \* CodeforcesAPI.last_api: no attribute, a Response, or parsed JSON
  last_page,  \* ext_CodeforcesAPI.last_page: no attribute or a Response
  call,       \* the call being made or made last: its name and arguments
  sent,       \* the HTTP requests issued by that call, in order
  ret,        \* how that call ended: pending, a returned value or a raised error
  threads     \* the calls running concurrently on the client, each with its
              \* position and locals; empty while calls are made one at a time

vars == <<key, secret, lang, last_api, last_page, call, sent, ret, threads>>

-----------------------------------------------------------------------------
(* Python str: code points and comparison *)

\* The printable ASCII characters in code point order, from 32 to 126 (the
\* grave accent, 96, cannot be written in a TLA+ string: "<96>" holds its place).
ASCII ==
  <<" ", "!", "\"", "#", "$", "%", "&", "'", "(", ")", "*", "+", ",", "-",
    ".", "/", "0", "1", "2", "3", "4", "5", "6", "7", "8", "9", ":", ";",
    "<", "=", ">", "?", "@", "A", "B", "C", "D", "E", "F", "G", "H", "I",
    "J", "K", "L", "M", "N", "O", "P", "Q", "R", "S", "T", "U", "V", "W",
    "X", "Y", "Z", "[", "\\", "]", "^", "_", "<96>", "a", "b", "c", "d", "e",
    "f", "g", "h", "i", "j", "k", "l", "m", "n", "o", "p", "q", "r", "s",
    "t", "u", "v", "w", "x", "y", "z", "{", "|", "}", "~">>

ord == [c \in {ASCII[i] : i \in DOMAIN ASCII} |->
          31 + (CHOOSE i \in DOMAIN ASCII : ASCII[i] = c)]

\* a < b for two str values: the first differing code point decides, and a
\* proper prefix is smaller.
RECURSIVE str_lt(_, _, _)
str_lt(a, b, i) ==
  IF i > Len(b) THEN FALSE
  ELSE IF i > Len(a) THEN TRUE
  ELSE IF a[i] = b[i] THEN str_lt(a, b, i + 1)
  ELSE ord[a[i]] < ord[b[i]]

\* sep.join(lst[lo..hi]) for a list of str.
RECURSIVE join_range(_, _, _, _)
join_range(sep, lst, lo, hi) ==
  IF lo > hi THEN <<>>
  ELSE IF lo = hi THEN lst[lo]
  ELSE LET mid == (lo + hi) \div 2
       IN  join_range(sep, lst, lo, mid) \o sep \o join_range(sep, lst, mid + 1, hi)

join(sep, lst) == join_range(sep, lst, 1, Len(lst))

digits == <<"0", "1", "2", "3", "4", "5", "6", "7", "8", "9">>

ascii_lowercase ==
  <<"a", "b", "c", "d", "e", "f", "g", "h", "i", "j", "k", "l", "m",
    "n", "o", "p", "q", "r", "s", "t", "u", "v", "w", "x", "y", "z">>

\* str(n) for an int n >= 0.
RECURSIVE str_nat(_)
str_nat(n) ==
  IF n < 10 THEN <<digits[n + 1]>>
  ELSE Append(str_nat(n \div 10), digits[(n % 10) + 1])

str_int(n) == IF n < 0 THEN <<"-">> \o str_nat(0 - n) ELSE str_nat(n)

-----------------------------------------------------------------------------
(* Python values *)

None == [t |-> "None"]
PyInt(n) == [t |-> "int", v |-> n]
PyBool(b) == [t |-> "bool", v |-> b]
PyStr(s) == [t |-> "str", v |-> s]
PyList(l) == [t |-> "list", v |-> l]

\* str(value) for the values the library passes as parameters.
str(value) ==
  CASE value.t = "str" -> value.v
    [] value.t = "int" -> str_int(value.v)
    [] value.t = "bool" -> IF value.v THEN <<"T", "r", "u", "e">>
                           ELSE <<"F", "a", "l", "s", "e">>
    [] value.t = "None" -> <<"N", "o", "n", "e">>

\* kwargs[name] = value on a dict: an existing item keeps its place, a new
\* one goes last.
dict_set(kwargs, name, value) ==
  IF \E i \in DOMAIN kwargs : kwargs[i][1] = name
  THEN [i \in DOMAIN kwargs |->
          IF kwargs[i][1] = name THEN <<name, value>> ELSE kwargs[i]]
  ELSE Append(kwargs, <<name, value>>)

-----------------------------------------------------------------------------
(* The parameter and method names the library sends, as Python str *)

s_lang == <<"l", "a", "n", "g">>
s_time == <<"t", "i", "m", "e">>
s_apiKey == <<"a", "p", "i", "K", "e", "y">>
s_apiSig == <<"a", "p", "i", "S", "i", "g">>
s_locale == <<"l", "o", "c", "a", "l", "e">>
s_handles == <<"h", "a", "n", "d", "l", "e", "s">>
s_handle == <<"h", "a", "n", "d", "l", "e">>
s_count == <<"c", "o", "u", "n", "t">>
\* The Python-side names of the renamed parameters.
s_from_row == <<"f", "r", "o", "m", "_", "r", "o", "w">>
s_from_sub == <<"f", "r", "o", "m", "_", "s", "u", "b">>
s_active_only == <<"a", "c", "t", "i", "v", "e", "_", "o", "n", "l", "y">>
s_from == <<"f", "r", "o", "m">>
s_contestId == <<"c", "o", "n", "t", "e", "s", "t", "I", "d">>
s_room == <<"r", "o", "o", "m">>
s_showUnofficial ==
  <<"s", "h", "o", "w", "U", "n", "o", "f", "f", "i", "c", "i", "a", "l">>
s_gym == <<"g", "y", "m">>
s_maxCount == <<"m", "a", "x", "C", "o", "u", "n", "t">>
s_problemsetName ==
  <<"p", "r", "o", "b", "l", "e", "m", "s", "e", "t", "N", "a", "m", "e">>

m_user_info == <<"u", "s", "e", "r", ".", "i", "n", "f", "o">>
m_contest_list ==
  <<"c", "o", "n", "t", "e", "s", "t", ".", "l", "i", "s", "t">>
m_contest_hacks ==
  <<"c", "o", "n", "t", "e", "s", "t", ".", "h", "a", "c", "k", "s">>
m_contest_standings ==
  <<"c", "o", "n", "t", "e", "s", "t", ".", "s", "t", "a", "n", "d", "i",
  "n", "g", "s">>
m_contest_status ==
  <<"c", "o", "n", "t", "e", "s", "t", ".", "s", "t", "a", "t", "u", "s">>
m_user_status == <<"u", "s", "e", "r", ".", "s", "t", "a", "t", "u", "s">>
m_user_ratedList ==
  <<"u", "s", "e", "r", ".", "r", "a", "t", "e", "d", "L", "i", "s", "t">>
s_activeOnly == <<"a", "c", "t", "i", "v", "e", "O", "n", "l", "y">>
m_problemset_recentStatus ==
  <<"p", "r", "o", "b", "l", "e", "m", "s", "e", "t", ".", "r", "e", "c",
  "e", "n", "t", "S", "t", "a", "t", "u", "s">>
m_recentActions ==
  <<"r", "e", "c", "e", "n", "t", "A", "c", "t", "i", "o", "n", "s">>

s_en == <<"e", "n">>
s_ru == <<"r", "u">>
s_ABC == <<"A", "B", "C">>
s_xyz == <<"x", "y", "z">>
s_tourist == <<"t", "o", "u", "r", "i", "s", "t">>
s_Petr == <<"P", "e", "t", "r">>
s_acmsguru == <<"a", "c", "m", "s", "g", "u", "r", "u">>

-----------------------------------------------------------------------------
(* The canonical query encoder *)

\* A variant that joins the elements of a list with ','.
_to_http_comma(param, value) ==
  LET text == IF value.t = "list"
              THEN join(<<",">>, [i \in DOMAIN value.v |-> str(value.v[i])])
              ELSE str(value)
  IN  param \o <<"=">> \o text

\* CodeforcesAPI._to_http: 'param=value', a list joined with ';'.
_to_http(param, value) ==
  LET text == IF value.t = "list"
              THEN join(<<";">>, [i \in DOMAIN value.v |-> str(value.v[i])])
              ELSE str(value)
  IN  param \o <<"=">> \o text

\* sorted(lst): the place of x in the sorted list acc, after its equals.
RECURSIVE insort(_, _)
insort(acc, x) ==
  IF acc = <<>> THEN <<x>>
  ELSE IF str_lt(x, acc[Len(acc)], 1)
       THEN Append(insort(SubSeq(acc, 1, Len(acc) - 1), x), acc[Len(acc)])
       ELSE Append(acc, x)

RECURSIVE sorted_range(_, _)
sorted_range(lst, n) ==
  IF n = 0 THEN <<>> ELSE insort(sorted_range(lst, n - 1), lst[n])

\* A variant that leaves the list in the order it was given.
unsorted(lst) == lst

\* sorted(lst)
sorted(lst) == sorted_range(lst, Len(lst))

\* A variant of the loop that keeps an item only when its value is truthy.
RECURSIVE str_kwargs_truthy(_, _)
str_kwargs_truthy(kwargs, n) ==
  IF n = 0 THEN <<>>
  ELSE LET lst == str_kwargs_truthy(kwargs, n - 1)
           value == kwargs[n][2]
       IN  IF value \notin {None, PyInt(0), PyBool(FALSE), PyList(<<>>)}
           THEN Append(lst, _to_http(kwargs[n][1], value))
           ELSE lst

\* The loop of _sorted_str_kwargs: the items whose value is not None, each
\* converted, in the dict's order.
RECURSIVE str_kwargs(_, _)
str_kwargs(kwargs, n) ==
  IF n = 0 THEN <<>>
  ELSE LET lst == str_kwargs(kwargs, n - 1)
       IN  IF kwargs[n][2] # None
           THEN Append(lst, _to_http(kwargs[n][1], kwargs[n][2]))
           ELSE lst

\* CodeforcesAPI._sorted_str_kwargs
_sorted_str_kwargs(kwargs) == sorted(str_kwargs(kwargs, Len(kwargs)))

\* CodeforcesAPI._get_url
_get_url(kwargs) == join(<<"&">>, _sorted_str_kwargs(kwargs))

-----------------------------------------------------------------------------
(* The request signer *)

\* Bounds of the model.
HexLen == 4      \* hex digits kept of a digest

hexdigits == digits \o <<"a", "b", "c", "d", "e", "f">>

RECURSIVE pow16(_)
pow16(n) == IF n = 0 THEN 1 ELSE 16 * pow16(n - 1)

Modulus == pow16(HexLen)

\* A stand-in for the digest of sha512: a position-weighted sum of the code
\* points of s, modulo 16^HexLen.  It is a function of every character of
\* its input and of nothing else, which is all the model uses of a digest.
digest(s) ==
  BagCardinality([i \in DOMAIN s |-> ((i % 7) + 1) * ord[s[i]]]) % Modulus

RECURSIVE hex(_, _)
hex(n, width) ==
  IF width = 0 THEN <<>>
  ELSE Append(hex(n \div 16, width - 1), hexdigits[(n % 16) + 1])

\* sha512(s.encode('utf-8')).hexdigest()
sha512_hexdigest(s) == hex(digest(s), HexLen)

\* The pre-image of the signature and the signature, for the parameters
\* kwargs (lang, time and apiKey already among them).
\* A variant that leaves the secret out of the hashed text.
sig_preimage_without_secret(rand, method, kwargs) ==
  rand \o <<"/">> \o method \o <<"?">> \o _get_url(kwargs) \o <<"#">>

\* The text _url_api_request hashes.
sig_preimage(rand, method, kwargs) ==
  rand \o <<"/">> \o method \o <<"?">> \o _get_url(kwargs) \o <<"#">> \o secret.v

\* A variant whose signature carries the secret in clear before the digest.
api_sig_with_secret(rand, method, kwargs) ==
  rand \o secret.v \o sha512_hexdigest(sig_preimage(rand, method, kwargs))

\* sig: the nonce followed by the digest.
api_sig(rand, method, kwargs) ==
  rand \o sha512_hexdigest(sig_preimage(rand, method, kwargs))

\* A variant that sets lang only when the caller passed none.
_url_api_request_keeps_lang(method, kwargs, now, rand) ==
  LET kw1 == IF \E i \in DOMAIN kwargs : kwargs[i][1] = s_lang
             THEN kwargs ELSE dict_set(kwargs, s_lang, PyStr(lang))
      kw2 == dict_set(kw1, s_time, PyInt(now))
      kw3 == dict_set(kw2, s_apiKey, key)
      kw4 == dict_set(kw3, s_apiSig, PyStr(api_sig(rand, method, kw3)))
  IN  IF key # None /\ secret # None THEN _get_url(kw4) ELSE _get_url(kw1)

\* A variant that puts the apiSig pair after the encoding of the other
\* parameters instead of encoding it with them.
_url_api_request_sig_appended(method, kwargs, now, rand) ==
  LET kw1 == dict_set(kwargs, s_lang, PyStr(lang))
      kw2 == dict_set(kw1, s_time, PyInt(now))
      kw3 == dict_set(kw2, s_apiKey, key)
  IN  IF key # None /\ secret # None
      THEN _get_url(kw3) \o <<"&">>
             \o _to_http(s_apiSig, PyStr(api_sig(rand, method, kw3)))
      ELSE _get_url(kw1)

\* A variant that sends the time whether or not the request is signed.
_url_api_request_always_timed(method, kwargs, now, rand) ==
  LET kw1 == dict_set(kwargs, s_lang, PyStr(lang))
      kw2 == dict_set(kw1, s_time, PyInt(1700000000))
      kw3 == dict_set(kw2, s_apiKey, key)
      kw4 == dict_set(kw3, s_apiSig, PyStr(api_sig(rand, method, kw3)))
  IN  IF key # None /\ secret # None THEN _get_url(kw4) ELSE _get_url(kw2)

\* CodeforcesAPI._url_api_request, with the clock's reading `now` and the
\* six characters `rand` drawn from SystemRandom.
_url_api_request(method, kwargs, now, rand) ==
  LET kw1 == dict_set(kwargs, s_lang, PyStr(lang))
      kw2 == dict_set(kw1, s_time, PyInt(now))
      kw3 == dict_set(kw2, s_apiKey, key)
      kw4 == dict_set(kw3, s_apiSig, PyStr(api_sig(rand, method, kw3)))
  IN  IF key # None /\ secret # None THEN _get_url(kw4) ELSE _get_url(kw1)

-----------------------------------------------------------------------------
(* Transport *)

NoAttr == [t |-> "no attribute"]

\* A requests.Response: its status code and its body (the JSON value or the
\* text the body holds).
Response(status_code, body) ==
  [t |-> "Response", status_code |-> status_code, body |-> body]

\* requests.Response.ok: no 4xx or 5xx status.
ok(request) == ~(400 <= request.status_code /\ request.status_code < 600)

Dict(items) == [t |-> "dict", v |-> items]

Return(value) == [kind |-> "return", value |-> value]
Raise(exc, args) == [kind |-> "raise", exc |-> exc, args |-> args]
Passed == [kind |-> "passed"]

\* CodeforcesAPI._check_request, called when self.last_api is `api`: the
\* message is formatted from self.last_api.status_code, an attribute only a
\* Response has.
_check_request(request, api) ==
  IF ~ok(request)
  THEN IF api.t = "Response"
       THEN Raise("ConnectionError", <<"Request status is {}", api.status_code>>)
       ELSE Raise("AttributeError", <<api.t, "status_code">>)
  ELSE Passed

\* One HTTP request as the network saw it.
Request(link, path, query, resp) ==
  [link |-> link, path |-> path, query |-> query, resp |-> resp]

\* A variant that issues the request a second time when the first answer has
\* a non-success HTTP status, and goes on with the second answer.
request_api_retry(method, query, resp) ==
  LET req == Request("api", method, query, resp)
      checked == _check_request(resp, resp)
      json == resp.body
  IN  IF checked.kind = "raise"
      THEN [last_api |-> resp, sent |-> <<req, req>>, ret |-> checked]
      ELSE IF json.v["status"] # "OK"
      THEN [last_api |-> json, sent |-> <<req>>,
            ret |-> Raise("ConnectionError",
                          <<"Codeforces API error: {}", json.v["comment"]>>)]
      ELSE [last_api |-> json, sent |-> <<req>>, ret |-> Return(json)]

\* A variant that returns the result field of the response.
request_api_result(method, query, resp) ==
  LET req == Request("api", method, query, resp)
      checked == _check_request(resp, resp)
      json == resp.body
  IN  IF checked.kind = "raise"
      THEN [last_api |-> resp, sent |-> <<req>>, ret |-> checked]
      ELSE IF json.v["status"] # "OK"
      THEN [last_api |-> json, sent |-> <<req>>,
            ret |-> Raise("ConnectionError",
                          <<"Codeforces API error: {}", json.v["comment"]>>)]
      ELSE [last_api |-> json, sent |-> <<req>>,
            ret |-> Return(json.v["result"])]

\* A variant whose error reports the status field in place of the comment.
request_api_status_detail(method, query, resp) ==
  LET req == Request("api", method, query, resp)
      checked == _check_request(resp, resp)
      json == resp.body
  IN  IF checked.kind = "raise"
      THEN [last_api |-> resp, sent |-> <<req>>, ret |-> checked]
      ELSE IF json.v["status"] # "OK"
      THEN [last_api |-> json, sent |-> <<req>>,
            ret |-> Raise("ConnectionError",
                          <<"Codeforces API error: {}", json.v["status"]>>)]
      ELSE [last_api |-> json, sent |-> <<req>>, ret |-> Return(json)]

\* A variant that stores the response only once its HTTP status was checked:
\* after an HTTP-level failure last_api is what it was before the call.
request_api_checks_first(method, query, resp) ==
  LET req == Request("api", method, query, resp)
      checked == _check_request(resp, resp)
      json == resp.body
  IN  IF checked.kind = "raise"
      THEN [last_api |-> last_api, sent |-> <<req>>, ret |-> checked]
      ELSE IF json.v["status"] # "OK"
      THEN [last_api |-> json, sent |-> <<req>>,
            ret |-> Raise("ConnectionError",
                          <<"Codeforces API error: {}", json.v["comment"]>>)]
      ELSE [last_api |-> json, sent |-> <<req>>, ret |-> Return(json)]

\* CodeforcesAPI.request_api once self._url_api_request(method, **kwargs) gave
\* query: the value of last_api when it ends, the request it issued and how
\* it ended, given the service's response resp.
request_api(method, query, resp) ==
  LET req == Request("api", method, query, resp)
      checked == _check_request(resp, resp)
      json == resp.body
  IN  IF checked.kind = "raise"
      THEN [last_api |-> resp, sent |-> <<req>>, ret |-> checked]
      ELSE IF json.v["status"] # "OK"
      THEN [last_api |-> json, sent |-> <<req>>,
            ret |-> Raise("ConnectionError",
                          <<"Codeforces API error: {}", json.v["comment"]>>)]
      ELSE [last_api |-> json, sent |-> <<req>>, ret |-> Return(json)]

-----------------------------------------------------------------------------
(* The response mapper.  A JSON object is Dict(items), a JSON array a      *)
(* PyList; a record of class C is [t |-> C, v |-> its attributes].          *)

IsRaise(x) == "kind" \in DOMAIN x /\ x.kind = "raise"

hasattr(self, name) == name \in DOMAIN self.v

setattr(self, name, value) ==
  [self EXCEPT !.v = [n \in DOMAIN self.v \cup {name} |->
                        IF n = name THEN value ELSE self.v[n]]]

\* Reading self.<name>: the attribute, or the AttributeError of a missing one.
getattr(self, name) ==
  IF hasattr(self, name) THEN self.v[name]
  ELSE Raise("AttributeError", <<self.t, name>>)

\* list(map(F, lst)), given out, the F(x) of the elements x of lst in order:
\* the list of them; the first element whose construction raises ends it.
list_map(out) ==
  LET bad == {i \in DOMAIN out : IsRaise(out[i])}
  IN  IF bad # {} THEN out[CHOOSE i \in bad : \A j \in bad : i <= j]
      ELSE PyList(out)

\* self.<name> = F(self.<name>), as the constructors of the composite records
\* do it, given value, the F(self.<name>): it raises when the attribute is
\* missing or F raises.  A self that is an exception raised by an earlier
\* statement of the constructor is passed on.
wrap(self, name, value) ==
  IF IsRaise(self) THEN self
  ELSE IF ~hasattr(self, name) THEN getattr(self, name)
  ELSE IF IsRaise(value) THEN value ELSE setattr(self, name, value)

\* CodeforcesResponse.__init__
CodeforcesResponse(cls, json) == [t |-> cls, v |-> json.v]

User(json) == CodeforcesResponse("User", json)
BlogEntry(json) == CodeforcesResponse("BlogEntry", json)
Comment(json) == CodeforcesResponse("Comment", json)
RatingChange(json) == CodeforcesResponse("RatingChange", json)
Contest(json) == CodeforcesResponse("Contest", json)
Member(json) == CodeforcesResponse("Member", json)
Problem(json) == CodeforcesResponse("Problem", json)
ProblemStatistics(json) == CodeforcesResponse("ProblemStatistics", json)
ProblemResult(json) == CodeforcesResponse("ProblemResult", json)

\* A variant that builds the ProblemResult list back to front.
ProblemResults_reversed(lst) ==
  list_map([i \in DOMAIN lst.v |-> ProblemResult(lst.v[Len(lst.v) + 1 - i])])

Members(lst) == list_map([i \in DOMAIN lst.v |-> Member(lst.v[i])])
ProblemResults(lst) ==
  list_map([i \in DOMAIN lst.v |-> ProblemResult(lst.v[i])])

\* A variant that wraps blogEntry and leaves comment as it came.
RecentAction_blogEntry_only(json) ==
  LET self == CodeforcesResponse("RecentAction", json)
  IN  IF hasattr(self, "blogEntry")
      THEN setattr(self, "blogEntry", BlogEntry(self.v["blogEntry"]))
      ELSE self

\* RecentAction.__init__
RecentAction(json) ==
  LET self == CodeforcesResponse("RecentAction", json)
      self1 == IF hasattr(self, "blogEntry")
               THEN setattr(self, "blogEntry", BlogEntry(self.v["blogEntry"]))
               ELSE self
  IN  IF hasattr(self1, "comment")
      THEN setattr(self1, "comment", Comment(self1.v["comment"]))
      ELSE self1

\* A variant of Party.__init__ that leaves members as the raw list.
Party_members_raw(json) ==
  LET self == CodeforcesResponse("Party", json)
  IN  wrap(self, "members", self.v["members"])

\* Party.__init__
Party(json) ==
  LET self == CodeforcesResponse("Party", json)
  IN  wrap(self, "members", Members(self.v["members"]))

\* Submission.__init__
Submission(json) ==
  LET self == CodeforcesResponse("Submission", json)
      self1 == wrap(self, "problem", Problem(self.v["problem"]))
  IN  wrap(self1, "author", Party(self1.v["author"]))

\* Hack.__init__
Hack(json) ==
  LET self == CodeforcesResponse("Hack", json)
      self1 == wrap(self, "hacker", Party(self.v["hacker"]))
  IN  wrap(self1, "defender", Party(self1.v["defender"]))

\* RanklistRow.__init__
RanklistRow(json) ==
  LET self == CodeforcesResponse("RanklistRow", json)
      self1 == wrap(self, "party", Party(self.v["party"]))
  IN  wrap(self1, "problemResults", ProblemResults(self1.v["problemResults"]))

-----------------------------------------------------------------------------
(* The caps the endpoint methods check *)

\* A cap on count that refuses the boundary value.
count_cap_off_by_one == 1000 - 1

MaxHandles == 10000     \* user_info, contest_standings: len(handles)
MaxCount == 1000        \* problemset_recentStatus: count
MaxMaxCount == 100      \* recentActions: maxCount

-----------------------------------------------------------------------------
(* What the remote service may answer *)

\* Bounds of the model.
MaxUsers == 3    \* users in a user.info result
MaxAsked == 3    \* handles in a user_info call

OkJson(result) == Dict([status |-> "OK", result |-> result])
FailedJson(comment) == Dict([status |-> "FAILED", comment |-> comment])

\* The answers that are no success: at the HTTP level (the service sends 400
\* with a FAILED body for a bad request) or in the JSON status alone.
ApiErrors ==
  { Response(400, FailedJson("handles: User with handle x not found")),
    Response(200, FailedJson("Call limit exceeded")) }

ApiResponses(results) ==
  ApiErrors \cup {Response(200, OkJson(result)) : result \in results}

raw_user(i) == Dict([handle |-> "tourist", rating |-> 3000 + i])
raw_users(n) == PyList([i \in 1..n |-> raw_user(i)])
UserResults == {raw_users(n) : n \in 0..MaxUsers}

raw_member(handle) == Dict([handle |-> handle])
raw_party1 ==
  Dict([members |-> PyList(<<raw_member("tourist")>>),
        participantType |-> "CONTESTANT"])
raw_party2 ==
  Dict([members |-> PyList(<<raw_member("Petr"), raw_member("Egor")>>),
        participantType |-> "CONTESTANT", teamId |-> 7])
raw_problemA == Dict([contestId |-> 566, index |-> "A", name |-> "Sum"])
raw_problemB == Dict([contestId |-> 566, index |-> "B", name |-> "Path"])

raw_hack1 ==
  Dict([id |-> 1, hacker |-> raw_party1, defender |-> raw_party2,
        problem |-> raw_problemA])
raw_hack2 ==
  Dict([id |-> 2, hacker |-> raw_party2, defender |-> raw_party1,
        problem |-> raw_problemB, verdict |-> "HACK_SUCCESSFUL"])
HackResults ==
  {PyList(<<>>), PyList(<<raw_hack1>>), PyList(<<raw_hack2, raw_hack1>>)}

raw_submission1 ==
  Dict([id |-> 11, problem |-> raw_problemA, author |-> raw_party1,
        verdict |-> "OK"])
raw_submission2 ==
  Dict([id |-> 12, problem |-> raw_problemB, author |-> raw_party2])
SubmissionResults ==
  {PyList(<<>>), PyList(<<raw_submission1>>),
   PyList(<<raw_submission2, raw_submission1>>)}

raw_blogEntry == Dict([id |-> 79, title |-> "Round"])
raw_comment == Dict([id |-> 5, text |-> "gl hf"])
raw_action_comment == Dict([timeSeconds |-> 100, comment |-> raw_comment])
raw_action_blogEntry == Dict([timeSeconds |-> 101, blogEntry |-> raw_blogEntry])
raw_action_both ==
  Dict([timeSeconds |-> 102, blogEntry |-> raw_blogEntry,
        comment |-> raw_comment])
raw_action_neither == Dict([timeSeconds |-> 103])
RecentActionResults ==
  {PyList(<<>>), PyList(<<raw_action_comment, raw_action_blogEntry>>),
   PyList(<<raw_action_both, raw_action_neither>>)}

raw_contest == Dict([id |-> 566, name |-> "VK Cup", phase |-> "FINISHED"])
raw_result(points) == Dict([points |-> points, rejectedAttemptCount |-> 0])
raw_row1 ==
  Dict([party |-> raw_party1, rank |-> 1,
        problemResults |-> PyList(<<raw_result(500), raw_result(0)>>)])
raw_row2 ==
  Dict([party |-> raw_party2, rank |-> 2,
        problemResults |-> PyList(<<raw_result(0), raw_result(900)>>)])
raw_standings(problems, rows) ==
  Dict([contest |-> raw_contest, problems |-> PyList(problems),
        rows |-> PyList(rows)])
StandingsResults ==
  { raw_standings(<<raw_problemA, raw_problemB>>, <<raw_row1, raw_row2>>),
    raw_standings(<<raw_problemB, raw_problemA>>, <<raw_row2>>),
    raw_standings(<<>>, <<>>) }

\* The answers of the site to a page request.
PageResponses ==
  { Response(200, "<html>Problems</html>"),
    Response(404, "<html>Not Found</html>"),
    Response(503, "<html>Unavailable</html>") }

-----------------------------------------------------------------------------
(* What the caller and the environment may supply *)

\* The clock's readings and SystemRandom's draws of six characters.
Times == {1700000000, 1700000001}
NonceLen == 6
Nonces == { [i \in 1..NonceLen |-> "0"],
            [i \in 1..NonceLen |-> IF i % 2 = 1 THEN "a" ELSE "7"] }

\* What a request draws: the clock and SystemRandom are read only when a
\* credential pair is configured.
NoDraw == [now |-> 0, rand |-> <<>>]
Draws ==
  IF key # None /\ secret # None
  THEN {[now |-> now, rand |-> rand] : now \in Times, rand \in Nonces}
  ELSE {NoDraw}

Keys == {None, PyStr(s_ABC)}
Secrets == {None, PyStr(s_xyz)}
Langs == {s_en, s_ru}

\* A list of n handles u1, u2, ...
handles_list(n) == PyList([i \in 1..n |-> PyStr(<<"u">> \o str_nat(i))])
AskedHandles == {PyStr(s_tourist)} \cup {handles_list(n) : n \in 1..MaxAsked}

\* Keyword arguments of a direct request_api call.
ApiMethods == {m_user_info, m_contest_list}
ApiKwargs ==
  { <<<<s_handles, PyList(<<PyStr(s_tourist)>>)>>>>,
    <<<<s_handles, PyList(<<PyStr(s_tourist), PyStr(s_Petr)>>)>>,
      <<s_lang, PyStr(s_ru)>>>>,
    <<<<s_from, None>>, <<s_count, PyInt(5)>>, <<s_contestId, PyInt(566)>>>>,
    <<<<s_gym, PyBool(FALSE)>>>> }

-----------------------------------------------------------------------------
(* The operations of a client *)

Call(op, args) == [op |-> op, args |-> args]

\* What an endpoint method returns for the value it built: the value, or the
\* error its construction raised.
Result(value) == IF IsRaise(value) THEN value ELSE Return(value)

\* self.request_api(method, **kwargs): the ways it can end when the service
\* answers with one of resps.
Exchange(method, kwargs, now, rand, resps) ==
  UNION {{request_api(method, query, resp) : resp \in resps} :
           query \in {_url_api_request(method, kwargs, now, rand)}}

\* The rest of an endpoint method after self.request_api ended as r: the
\* exception goes on to the caller, or the method returns what it built.
Finish(r, built) ==
  /\ last_api' = r.last_api
  /\ sent' = r.sent
  /\ ret' = IF r.ret.kind = "raise" THEN r.ret ELSE Result(built)

\* A method that raises before it issues a request.
Refuse(exc, args) ==
  /\ ret' = Raise(exc, args)
  /\ sent' = <<>>
  /\ UNCHANGED last_api

\* CodeforcesAPI.key (setter)
set_key(value) ==
  /\ call' = Call("key.setter", [value |-> value])
  /\ key' = value
  /\ ret' = Return(None)
  /\ sent' = <<>>
  /\ UNCHANGED <<secret, lang, last_api, last_page, threads>>

\* CodeforcesAPI.secret (setter)
set_secret(value) ==
  /\ call' = Call("secret.setter", [value |-> value])
  /\ secret' = value
  /\ ret' = Return(None)
  /\ sent' = <<>>
  /\ UNCHANGED <<key, lang, last_api, last_page, threads>>

\* A variant of the lang setter that stores the value before it tests it.
set_lang_stores_first(value) ==
  /\ call' = Call("lang.setter", [value |-> value])
  /\ lang' = value
  /\ ret' = IF value = s_ru \/ value = s_en THEN Return(None)
            ELSE Raise("TypeError", <<"Language", value>>)
  /\ sent' = <<>>
  /\ UNCHANGED <<key, secret, last_api, last_page, threads>>

\* CodeforcesAPI.lang (setter)
set_lang(value) ==
  /\ call' = Call("lang.setter", [value |-> value])
  /\ IF value = s_ru \/ value = s_en
     THEN lang' = value /\ ret' = Return(None)
     ELSE lang' = lang /\ ret' = Raise("TypeError", <<"Language", value>>)
  /\ sent' = <<>>
  /\ UNCHANGED <<key, secret, last_api, last_page, threads>>

\* A direct call of CodeforcesAPI.request_api
call_request_api(method, kwargs, now, rand, resps) ==
  /\ call' = Call("request_api", [method |-> method, kwargs |-> kwargs])
  /\ \E r \in Exchange(method, kwargs, now, rand, resps) :
       /\ last_api' = r.last_api
       /\ sent' = r.sent
       /\ ret' = r.ret
  /\ UNCHANGED <<key, secret, lang, last_page, threads>>

\* The query requests builds from params: the items in the dict's order.
urlencode(params) ==
  join(<<"&">>, [i \in DOMAIN params |-> _to_http(params[i][1], params[i][2])])

\* ext_CodeforcesAPI.get_page
get_page(link, params, resp) ==
  LET params1 == dict_set(params, s_locale, PyStr(lang))
      checked == _check_request(resp, last_api)
  IN  /\ call' = Call("get_page", [link |-> link, params |-> params])
      /\ last_page' = resp
      /\ sent' = <<Request("site", link, urlencode(params1), resp)>>
      /\ ret' = IF checked.kind = "raise" THEN checked ELSE Return(resp.body)
      /\ UNCHANGED <<key, secret, lang, last_api, threads>>

\* list(map(Hack, ...)) and its like, for the other classes
Hacks(result) == list_map([i \in DOMAIN result.v |-> Hack(result.v[i])])
Submissions(result) ==
  list_map([i \in DOMAIN result.v |-> Submission(result.v[i])])
RecentActionList(result) ==
  list_map([i \in DOMAIN result.v |-> RecentAction(result.v[i])])
Users(result) == list_map([i \in DOMAIN result.v |-> User(result.v[i])])
Problems(result) ==
  list_map([i \in DOMAIN result.v |-> Problem(result.v[i])])
RanklistRows(result) ==
  list_map([i \in DOMAIN result.v |-> RanklistRow(result.v[i])])

\* CodeforcesAPI.contest_hacks
contest_hacks(contestId, now, rand, resps) ==
  /\ call' = Call("contest_hacks", [contestId |-> contestId])
  /\ \E r \in Exchange(m_contest_hacks, <<<<s_contestId, contestId>>>>,
                        now, rand, resps) :
       Finish(r, Hacks(r.last_api.v["result"]))
  /\ UNCHANGED <<key, secret, lang, last_page, threads>>

\* The list contest_standings returns, built from the result of the response.
standings_records(result) ==
  LET contest == Contest(result.v["contest"])
      problems == Problems(result.v["problems"])
      rows == RanklistRows(result.v["rows"])
  IN  IF IsRaise(rows) THEN rows ELSE PyList(<<contest, problems, rows>>)

\* CodeforcesAPI.contest_standings
contest_standings(contestId, from_row, count, handles, room, showUnofficial, now, rand, resps) ==
  LET handles1 == IF handles.t = "str" THEN PyList(<<handles>>) ELSE handles
      kwargs == << <<s_contestId, contestId>>, <<s_from, from_row>>,
                   <<s_count, count>>, <<s_handles, handles1>>,
                   <<s_room, room>>, <<s_showUnofficial, showUnofficial>> >>
  IN  /\ call' = Call("contest_standings",
                      [contestId |-> contestId, from_row |-> from_row,
                       count |-> count, handles |-> handles, room |-> room,
                       showUnofficial |-> showUnofficial])
      /\ IF handles1 # None /\ Len(handles1.v) > MaxHandles
         THEN Refuse("TypeError", <<"handles len", Len(handles1.v)>>)
         ELSE \E r \in Exchange(m_contest_standings, kwargs, now, rand,
                               resps) :
                Finish(r, standings_records(r.last_api.v["result"]))
      /\ UNCHANGED <<key, secret, lang, last_page, threads>>

\* CodeforcesAPI.problemset_recentStatus
problemset_recentStatus(count, problemsetName, now, rand, resps) ==
  LET kwargs == << <<s_count, PyInt(count)>>,
                   <<s_problemsetName, problemsetName>> >>
  IN  /\ call' = Call("problemset_recentStatus",
                      [count |-> count, problemsetName |-> problemsetName])
      /\ IF count > MaxCount
         THEN Refuse("TypeError", <<"count", count>>)
         ELSE \E r \in Exchange(m_problemset_recentStatus, kwargs, now,
                               rand, resps) :
                Finish(r, Submissions(r.last_api.v["result"]))
      /\ UNCHANGED <<key, secret, lang, last_page, threads>>

\* CodeforcesAPI.recentActions
recentActions(maxCount, now, rand, resps) ==
  /\ call' = Call("recentActions", [maxCount |-> maxCount])
  /\ IF maxCount > MaxMaxCount
     THEN Refuse("TypeError", <<"maxCount", maxCount>>)
     ELSE \E r \in Exchange(m_recentActions,
                           <<<<s_maxCount, PyInt(maxCount)>>>>, now, rand,
                           resps) :
            Finish(r, RecentActionList(r.last_api.v["result"]))
  /\ UNCHANGED <<key, secret, lang, last_page, threads>>

\* A variant that returns a list whatever the length of the result.
user_records_always_list(result) == Users(result)

\* CodeforcesAPI.contest_status
contest_status(contestId, handle, from_sub, count, now, rand, resps) ==
  LET kwargs == << <<s_contestId, contestId>>, <<s_handle, handle>>,
                   <<s_from, from_sub>>, <<s_count, count>> >>
  IN  /\ call' = Call("contest_status",
                      [contestId |-> contestId, handle |-> handle,
                       from_sub |-> from_sub, count |-> count])
      /\ \E r \in Exchange(m_contest_status, kwargs, now, rand, resps) :
           Finish(r, Submissions(r.last_api.v["result"]))
      /\ UNCHANGED <<key, secret, lang, last_page, threads>>

\* CodeforcesAPI.user_status
user_status(handle, from_sub, count, now, rand, resps) ==
  LET kwargs == << <<s_handle, handle>>, <<s_from, from_sub>>,
                   <<s_count, count>> >>
  IN  /\ call' = Call("user_status",
                      [handle |-> handle, from_sub |-> from_sub,
                       count |-> count])
      /\ \E r \in Exchange(m_user_status, kwargs, now, rand, resps) :
           Finish(r, Submissions(r.last_api.v["result"]))
      /\ UNCHANGED <<key, secret, lang, last_page, threads>>

\* CodeforcesAPI.user_ratedList
user_ratedList(active_only, now, rand, resps) ==
  /\ call' = Call("user_ratedList", [active_only |-> active_only])
  /\ \E r \in Exchange(m_user_ratedList, <<<<s_activeOnly, active_only>>>>,
                        now, rand, resps) :
       Finish(r, Users(r.last_api.v["result"]))
  /\ UNCHANGED <<key, secret, lang, last_page, threads>>

\* The value user_info returns, built from the result of the response.
user_records(result) ==
  IF Len(result.v) = 1 THEN User(result.v[1]) ELSE Users(result)

\* CodeforcesAPI.user_info
user_info(handles, now, rand, resps) ==
  LET handles1 == IF handles.t = "str" THEN PyList(<<handles>>) ELSE handles
  IN  /\ call' = Call("user_info", [handles |-> handles])
      /\ IF Len(handles1.v) > MaxHandles
         THEN Refuse("TypeError", <<"handles len", Len(handles1.v)>>)
         ELSE \E r \in Exchange(m_user_info, <<<<s_handles, handles1>>>>,
                               now, rand, resps) :
                Finish(r, user_records(r.last_api.v["result"]))
      /\ UNCHANGED <<key, secret, lang, last_page, threads>>

-----------------------------------------------------------------------------
(* The client: construction and the calls made on it *)

\* CodeforcesAPI.__init__: the three setters; a lang the setter refuses
\* leaves no client.
Init ==
  /\ key \in Keys
  /\ secret \in Secrets
  /\ lang \in Langs
  /\ last_api = NoAttr
  /\ last_page = NoAttr
  /\ call = Call("__init__", [key |-> key, secret |-> secret, lang |-> lang])
  /\ sent = <<>>
  /\ ret = Return(None)
  /\ threads = <<>>

\* Arguments of contest_standings.
StandingsArgs ==
  { [from_row |-> None, count |-> None, handles |-> None,
     showUnofficial |-> None],
    [from_row |-> PyInt(1), count |-> PyInt(5), handles |-> None,
     showUnofficial |-> PyBool(TRUE)],
    [from_row |-> None, count |-> PyInt(5), handles |-> PyStr(s_tourist),
     showUnofficial |-> None],
    [from_row |-> PyInt(1), count |-> None, handles |-> handles_list(2),
     showUnofficial |-> PyBool(FALSE)] }

SetKey == \E value \in Keys : set_key(value)
SetSecret == \E value \in Secrets : set_secret(value)
SetLang == \E value \in Langs \cup {<<"d", "e">>} : set_lang(value)

RequestApi ==
  \E method \in ApiMethods, kwargs \in ApiKwargs, d \in Draws :
    call_request_api(method, kwargs, d.now, d.rand,
                     ApiResponses({raw_users(1)}))

UserInfo ==
  \E handles \in AskedHandles, d \in Draws :
    user_info(handles, d.now, d.rand, ApiResponses(UserResults))

ContestHacks ==
  \E d \in Draws :
    contest_hacks(PyInt(566), d.now, d.rand, ApiResponses(HackResults))

ContestStandings ==
  \E a \in StandingsArgs, d \in Draws :
    contest_standings(PyInt(566), a.from_row, a.count, a.handles, None,
                      a.showUnofficial, d.now, d.rand,
                      ApiResponses(StandingsResults))

ProblemsetRecentStatus ==
  \E problemsetName \in {None, PyStr(s_acmsguru)}, d \in Draws :
    problemset_recentStatus(10, problemsetName, d.now, d.rand,
                            ApiResponses(SubmissionResults))

RecentActions ==
  \E d \in Draws :
    recentActions(30, d.now, d.rand, ApiResponses(RecentActionResults))

\* The client as its configuration changes and requests are made on it.
Next == SetKey \/ SetSecret \/ SetLang \/ RequestApi \/ UserInfo

Spec == Init /\ [][Next]_vars

\* The endpoint methods that build composite records, on a client as
\* constructed.
NextEndpoints ==
  ContestHacks \/ ContestStandings \/ ProblemsetRecentStatus \/ RecentActions

SpecEndpoints == Init /\ [][NextEndpoints]_vars

-----------------------------------------------------------------------------
(* The encoder alone: _get_url applied to keyword arguments *)

\* Bounds of the model.
MaxParams == 3   \* keyword arguments of one _get_url call

EncNames == {s_handles, s_handle, s_count, s_from}
EncValues ==
  { None, PyInt(0), PyBool(FALSE), PyStr(s_ru), PyList(<<>>),
    PyList(<<PyStr(s_Petr), PyInt(7), PyStr(s_Petr)>>) }

\* The dicts of at most MaxParams items: every order of every choice of
\* distinct names, with every value.
EncoderKwargs ==
  UNION { { kwargs \in [1..n -> EncNames \X EncValues] :
              \A i, j \in 1..n : kwargs[i][1] = kwargs[j][1] => i = j }
          : n \in 0..MaxParams }

Pending == [kind |-> "pending"]

InitEncoder ==
  /\ key = None
  /\ secret = None
  /\ lang = s_en
  /\ last_api = NoAttr
  /\ last_page = NoAttr
  /\ \E kwargs \in EncoderKwargs : call = Call("_get_url", [kwargs |-> kwargs])
  /\ sent = <<>>
  /\ ret = Pending
  /\ threads = <<>>

\* The call of CodeforcesAPI._get_url(**kwargs)
call_get_url ==
  /\ call.op = "_get_url"
  /\ ret = Pending
  /\ ret' = Return(_get_url(call.args.kwargs))
  /\ UNCHANGED <<key, secret, lang, last_api, last_page, call, sent, threads>>

SpecEncoder == InitEncoder /\ [][call_get_url]_vars

-----------------------------------------------------------------------------
(* One client used for call after call *)

\* recentActions asked for a count under its cap and for one over it.
SeqRecentActions ==
  \E maxCount \in {30, MaxMaxCount + 1}, d \in Draws :
    recentActions(maxCount, d.now, d.rand, ApiResponses(RecentActionResults))

\* Endpoint calls and direct requests in any order on the same client, each
\* finding last_api as the call before it left it.
NextSequence ==
  RequestApi \/ UserInfo \/ ContestStandings \/ ProblemsetRecentStatus
    \/ SeqRecentActions

SpecSequence == Init /\ [][NextSequence]_vars

-----------------------------------------------------------------------------
(* Clients that differ in their secret *)

s_xyw == <<"x", "y", "w">>

\* The secrets a client is configured with: none, and two that differ in
\* one character.
TwoSecrets == Secrets \cup {PyStr(s_xyw)}

\* CodeforcesAPI.__init__ with any of these secrets.
InitSecrets ==
  /\ key \in Keys
  /\ secret \in TwoSecrets
  /\ lang \in Langs
  /\ last_api = NoAttr
  /\ last_page = NoAttr
  /\ call = Call("__init__", [key |-> key, secret |-> secret, lang |-> lang])
  /\ sent = <<>>
  /\ ret = Return(None)
  /\ threads = <<>>

ChangeSecret == \E value \in TwoSecrets : set_secret(value)

NextSecrets == ChangeSecret \/ RequestApi \/ UserInfo

SpecSecrets == InitSecrets /\ [][NextSecrets]_vars

-----------------------------------------------------------------------------
(* Page requests beside API requests *)

s_problems_page ==
  <<"c", "o", "n", "t", "e", "s", "t", "/", "5", "6", "6", "/", "p", "r", "o", "b", "l", "e", "m", "s">>

GetPage ==
  \E params \in {<<>>, <<<<s_locale, PyStr(s_ru)>>, <<s_count, PyInt(5)>>>>},
     resp \in PageResponses :
    get_page(s_problems_page, params, resp)

NextPage == RequestApi \/ GetPage

SpecPage == Init /\ [][NextPage]_vars

-----------------------------------------------------------------------------
(* The capped parameters at their caps *)

\* A list of n handles.
same_handles(n) == PyList([i \in 1..n |-> PyStr(<<"u">>)])
CapHandles == {same_handles(MaxHandles), same_handles(MaxHandles + 1)}

CapRecentStatus ==
  \E count \in {MaxCount - 1, MaxCount, MaxCount + 1, MaxCount + 2},
     problemsetName \in {None, PyStr(s_acmsguru)}, d \in Draws :
    problemset_recentStatus(count, problemsetName, d.now, d.rand,
                            ApiResponses(SubmissionResults))

CapRecentActions ==
  \E maxCount \in {MaxMaxCount - 1, MaxMaxCount, MaxMaxCount + 1,
                   MaxMaxCount + 2}, d \in Draws :
    recentActions(maxCount, d.now, d.rand, ApiResponses(RecentActionResults))

CapUserInfo ==
  \E handles \in CapHandles, d \in Draws :
    user_info(handles, d.now, d.rand, ApiResponses({raw_users(2)}))

CapStandings ==
  \E handles \in CapHandles, d \in Draws :
    contest_standings(PyInt(566), None, None, handles, None, None,
                      d.now, d.rand,
                      ApiResponses({raw_standings(<<raw_problemA>>, <<>>)}))

\* CodeforcesAPI(): the client with the constructor's defaults.
InitCaps == Init /\ key = None /\ secret = None /\ lang = s_en

NextCaps == CapRecentStatus \/ CapRecentActions \/ CapUserInfo \/ CapStandings

SpecCaps == InitCaps /\ [][NextCaps]_vars

-----------------------------------------------------------------------------
(* The constructors of the composite records, each called on a raw mapping *)

MaxMembers == 2   \* members of a party

Absent == [t |-> "absent"]

\* The mapping d with the item name: value, or d itself for no value.
opt(d, name, value) == IF value = Absent THEN d ELSE setattr(d, name, value)

\* A key no record class documents, holding a mapping of its own.
raw_extra == Dict([a |-> 1])

\* Raw parties: with and without members (none, one, several), with and
\* without an undocumented key; teamId and teamName are never there.
RawParties ==
  { opt(opt(Dict([participantType |-> "CONTESTANT"]), "members", m),
        "extra", e) :
      m \in {Absent} \cup
            {PyList([i \in 1..n |-> raw_member(<<"u">> \o str_nat(i))]) :
               n \in 0..MaxMembers},
      e \in {Absent, raw_extra} }

RawSubmissions ==
  { opt(opt(opt(Dict([id |-> 11, verdict |-> "OK"]), "problem", p),
            "author", a), "extra", e) :
      p \in {Absent, raw_problemA},
      a \in {Absent} \cup RawParties,
      e \in {Absent, raw_extra} }

RawRows ==
  { opt(opt(opt(Dict([rank |-> 1]), "party", p), "problemResults", r),
        "extra", e) :
      p \in {Absent} \cup RawParties,
      r \in {Absent, PyList(<<>>),
             PyList(<<raw_result(500), raw_result(0)>>)},
      e \in {Absent, raw_extra} }

InitMapper ==
  /\ key = None
  /\ secret = None
  /\ lang = s_en
  /\ last_api = NoAttr
  /\ last_page = NoAttr
  /\ call \in {Call("Party", [json |-> j]) : j \in RawParties}
        \cup {Call("Submission", [json |-> j]) : j \in RawSubmissions}
        \cup {Call("RanklistRow", [json |-> j]) : j \in RawRows}
  /\ sent = <<>>
  /\ ret = Pending
  /\ threads = <<>>

\* The call of a constructor: Party(json), Submission(json), RanklistRow(json)
NextMapper ==
  /\ ret = Pending
  /\ \/ call.op = "Party" /\ ret' = Result(Party(call.args.json))
     \/ call.op = "Submission" /\ ret' = Result(Submission(call.args.json))
     \/ call.op = "RanklistRow" /\ ret' = Result(RanklistRow(call.args.json))
  /\ UNCHANGED <<key, secret, lang, last_api, last_page, call, sent, threads>>

SpecMapper == InitMapper /\ [][NextMapper]_vars

-----------------------------------------------------------------------------
(* The endpoint methods whose Python parameter names differ from the names *)
(* the service expects *)

FromArgs == {None, PyInt(1)}

NextRenamed ==
  \/ \E from_row \in FromArgs, count \in {None, PyInt(5)}, d \in Draws :
       contest_standings(PyInt(566), from_row, count, None, None, None,
                         d.now, d.rand, ApiResponses({raw_standings(<<>>, <<>>)}))
  \/ \E handle \in {None, PyStr(s_tourist)}, from_sub \in FromArgs, d \in Draws :
       contest_status(PyInt(566), handle, from_sub, PyInt(10), d.now, d.rand,
                      ApiResponses({PyList(<<raw_submission1>>)}))
  \/ \E from_sub \in FromArgs, count \in {None, PyInt(10)}, d \in Draws :
       user_status(PyStr(s_tourist), from_sub, count, d.now, d.rand,
                   ApiResponses({PyList(<<raw_submission1>>)}))
  \/ \E active_only \in {PyBool(FALSE), PyBool(TRUE)}, d \in Draws :
       user_ratedList(active_only, d.now, d.rand,
                      ApiResponses({raw_users(2)}))

SpecRenamed == Init /\ [][NextRenamed]_vars

-----------------------------------------------------------------------------
(* Two calls of blogEntry_comments running at once on one client.  A thread *)
(* can be switched between any two bytecodes, so every read and every write *)
(* of self.last_api is a step of its own; what a thread holds between them  *)
(* is local to it.                                                          *)

s_blogEntryId == <<"b", "l", "o", "g", "E", "n", "t", "r", "y", "I", "d">>
m_blogEntry_comments ==
  <<"b", "l", "o", "g", "E", "n", "t", "r", "y", ".", "c", "o", "m", "m",
  "e", "n", "t", "s">>

Comments(result) == list_map([i \in DOMAIN result.v |-> Comment(result.v[i])])

\* x.<name> of a value read from self.last_api that is no Response.
no_attribute(x, name) == Raise("AttributeError", <<x.t, name>>)

\* x[name] of a value read from self.last_api: a Response cannot be
\* subscripted, a dict gives the item or KeyError.
subscript(x, name) ==
  IF x.t # "dict" THEN Raise("TypeError", <<x.t, "is not subscriptable">>)
  ELSE IF name \notin DOMAIN x.v THEN Raise("KeyError", <<name>>)
  ELSE Return(x.v[name])

\* A thread about to call blogEntry_comments(blogEntryId).
Thread(blogEntryId) ==
  [blogEntryId |-> blogEntryId, pc |-> "request", resp |-> NoAttr,
   local |-> NoAttr, ret |-> Pending]

\* The thread moves to pc, or ends with the outcome ret.
goto(t, pc, local) ==
  threads' = [threads EXCEPT ![t].pc = pc, ![t].local = local]
finish(t, outcome) ==
  threads' = [threads EXCEPT ![t].pc = "done", ![t].ret = outcome]

\* What the comments of blog entry blogEntryId are, as the service tells it.
raw_comments(blogEntryId) ==
  PyList([i \in 1..(blogEntryId - 78) |->
            Dict([id |-> 10 * blogEntryId + i, text |-> "gl hf"])])

\* request_api: self.last_api = http_request(...)
race_request(t, now, rand, resp) ==
  /\ threads[t].pc = "request"
  /\ last_api' = resp
  /\ sent' = Append(sent,
              Request("api", m_blogEntry_comments,
                      _url_api_request(m_blogEntry_comments,
                        <<<<s_blogEntryId, PyInt(threads[t].blogEntryId)>>>>,
                        now, rand),
                      resp))
  /\ threads' = [threads EXCEPT ![t].pc = "check", ![t].resp = resp]
  /\ UNCHANGED <<key, secret, lang, last_page, call, ret>>

\* request_api: self._check_request(self.last_api), up to `request.ok`
race_check(t) ==
  /\ threads[t].pc = "check"
  /\ IF last_api.t # "Response" THEN finish(t, no_attribute(last_api, "ok"))
     ELSE IF ~ok(last_api) THEN goto(t, "check_raise", last_api)
     ELSE goto(t, "json", NoAttr)
  /\ UNCHANGED <<key, secret, lang, last_api, last_page, call, sent, ret>>

\* _check_request: raise ConnectionError(...self.last_api.status_code)
race_check_raise(t) ==
  /\ threads[t].pc = "check_raise"
  /\ finish(t, _check_request(threads[t].local, last_api))
  /\ UNCHANGED <<key, secret, lang, last_api, last_page, call, sent, ret>>

\* request_api: self.last_api.json(), not yet stored
race_json(t) ==
  /\ threads[t].pc = "json"
  /\ IF last_api.t # "Response" THEN finish(t, no_attribute(last_api, "json"))
     ELSE goto(t, "store_json", last_api.body)
  /\ UNCHANGED <<key, secret, lang, last_api, last_page, call, sent, ret>>

\* request_api: self.last_api = <the parsed JSON>
race_store_json(t) ==
  /\ threads[t].pc = "store_json"
  /\ last_api' = threads[t].local
  /\ goto(t, "status", NoAttr)
  /\ UNCHANGED <<key, secret, lang, last_page, call, sent, ret>>

\* request_api: if self.last_api['status'] != 'OK'
race_status(t) ==
  /\ threads[t].pc = "status"
  /\ LET status == subscript(last_api, "status")
     IN  IF status.kind = "raise" THEN finish(t, status)
         ELSE IF status.value # "OK" THEN goto(t, "comment", NoAttr)
         ELSE goto(t, "result", NoAttr)
  /\ UNCHANGED <<key, secret, lang, last_api, last_page, call, sent, ret>>

\* request_api: raise ConnectionError(..., self.last_api['comment'])
race_comment(t) ==
  /\ threads[t].pc = "comment"
  /\ LET comment == subscript(last_api, "comment")
     IN  IF comment.kind = "raise" THEN finish(t, comment)
         ELSE finish(t, Raise("ConnectionError",
                              <<"Codeforces API error: {}", comment.value>>))
  /\ UNCHANGED <<key, secret, lang, last_api, last_page, call, sent, ret>>

\* A variant of what blogEntry_comments builds from: the JSON of the
\* response this thread itself received.
own_response(t) == threads[t].resp.body

\* blogEntry_comments: the self.last_api it reads after request_api returned.
read_last_api(t) == last_api

\* blogEntry_comments: return list(map(Comment, self.last_api['result']))
race_result(t) ==
  /\ threads[t].pc = "result"
  /\ LET result == subscript(read_last_api(t), "result")
     IN  IF result.kind = "raise" THEN finish(t, result)
         ELSE finish(t, Result(Comments(result.value)))
  /\ UNCHANGED <<key, secret, lang, last_api, last_page, call, sent, ret>>

\* A client as constructed with its defaults, and two threads that call
\* blogEntry_comments(79) and blogEntry_comments(80) on it.
InitRace ==
  /\ key = None
  /\ secret = None
  /\ lang = s_en
  /\ last_api = NoAttr
  /\ last_page = NoAttr
  /\ call = Call("__init__", [key |-> key, secret |-> secret, lang |-> lang])
  /\ sent = <<>>
  /\ ret = Return(None)
  /\ threads = <<Thread(79), Thread(80)>>

\* Either thread takes its next step; the service answers a request for the
\* comments of a blog entry with them or with an error.
NextRace ==
  \E t \in DOMAIN threads :
    \/ \E d \in Draws :
         \E resp \in ApiResponses({raw_comments(threads[t].blogEntryId)}) :
           race_request(t, d.now, d.rand, resp)
    \/ race_check(t)
    \/ race_check_raise(t)
    \/ race_json(t)
    \/ race_store_json(t)
    \/ race_status(t)
    \/ race_comment(t)
    \/ race_result(t)

SpecRace == InitRace /\ [][NextRace]_vars

-----------------------------------------------------------------------------
(* Reading a query string back *)

\* s.split(c): the pieces of s between the occurrences of the character c.
split(s, c) ==
  LET cuts == {0} \cup {i \in 1..Len(s) : s[i] = c} \cup {Len(s) + 1}
      cut(k) == CHOOSE x \in cuts : Cardinality({y \in cuts : y < x}) = k
  IN  [k \in 1..(Cardinality(cuts) - 1) |->
         SubSeq(s, cut(k - 1) + 1, cut(k) - 1)]

\* The 'k=v' pairs of a query, in its order.
query_pairs(query) == IF query = <<>> THEN <<>> ELSE split(query, "&")

\* The name and the value of a pair 'k=v'.
pair_name(pair) ==
  SubSeq(pair, 1, (CHOOSE i \in 1..Len(pair) :
                     pair[i] = "=" /\ \A j \in 1..(i - 1) : pair[j] # "=") - 1)
pair_value(pair) == SubSeq(pair, Len(pair_name(pair)) + 2, Len(pair))

\* A list of str in strictly ascending order.
ascending(lst) == \A i \in 1..(Len(lst) - 1) : str_lt(lst[i], lst[i + 1], 1)

\* The pairs of a query with those named `name` left out.
pairs_without(pairs, name) ==
  LET keep == {i \in DOMAIN pairs : pair_name(pairs[i]) # name}
      nth(k) == CHOOSE i \in keep : Cardinality({j \in keep : j < i}) = k - 1
  IN  [k \in 1..Cardinality(keep) |-> pairs[nth(k)]]

names_of(pairs) == {pair_name(pairs[i]) : i \in DOMAIN pairs}

\* The items of a dict in another order.
reordered(kwargs, p) == [i \in DOMAIN kwargs |-> kwargs[p[i]]]

\* The call made last was request_api itself, and it issued its request.
DirectRequest ==
  call.op = "request_api" /\ Len(sent) = 1 /\ sent[1].link = "api"
Signed == key # None /\ secret # None
SentPairs == query_pairs(sent[1].query)

\* What request_api passes for encoding after lang, time and apiKey are set.
signed_kwargs(kwargs, now) ==
  dict_set(dict_set(dict_set(kwargs, s_lang, PyStr(lang)),
                    s_time, PyInt(now)), s_apiKey, key)

-----------------------------------------------------------------------------
(* The claims *)

\* C1: for every parameter mapping, _get_url returns the '&'-join of the
\* 'k=v' strings of the items whose value is not None, in strictly ascending
\* lexicographic order of the whole pair string, and every reordering of the
\* mapping's items gives the same string.
C1_CanonicalEncodingSorted ==
  (call.op = "_get_url" /\ ret.kind = "return") =>
    LET kwargs == call.args.kwargs
        present == {i \in DOMAIN kwargs : kwargs[i][2] # None}
        pairs == query_pairs(ret.value)
    IN  /\ Len(pairs) = Cardinality(present)
        /\ \A i \in present :
             \E j \in DOMAIN pairs :
               pairs[j] = _to_http(kwargs[i][1], kwargs[i][2])
        /\ ascending(pairs)
        /\ \A p \in Permutations(DOMAIN kwargs) :
             _get_url(reordered(kwargs, p)) = ret.value

\* C1 witness: an encoded mapping of three present items given in an order
\* that is not the sorted one, so the sort moved a pair.
C1_Witness ==
  /\ call.op = "_get_url"
  /\ ret.kind = "return"
  /\ Len(call.args.kwargs) = 3
  /\ \A i \in 1..3 : call.args.kwargs[i][2] # None
  /\ str_lt(_to_http(call.args.kwargs[3][1], call.args.kwargs[3][2]),
            _to_http(call.args.kwargs[1][1], call.args.kwargs[1][2]), 1)
  /\ Len(query_pairs(ret.value)) = 3

\* C2 as claimed: in a signed request the apiSig pair is the last element of
\* the query, after the canonical encoding of the other parameters.
C2_Claimed_SigIsLast ==
  (DirectRequest /\ Signed) =>
    /\ pair_name(SentPairs[Len(SentPairs)]) = s_apiSig
    /\ \E now \in Times :
         sent[1].query =
           _get_url(signed_kwargs(call.args.kwargs, now)) \o <<"&">>
             \o SentPairs[Len(SentPairs)]

\* C2 amended: in a signed request apiSig is one more parameter of the one
\* canonical encoding: the query's pairs are in ascending order with the
\* apiSig pair among them at its sorted place (straight after apiKey, before
\* lang and time), exactly one pair is named apiSig, and the other pairs are
\* the canonical encoding of the non-signature parameters.
C2_SigSortedWithTheRest ==
  (DirectRequest /\ Signed) =>
    /\ ascending(SentPairs)
    /\ Cardinality({i \in DOMAIN SentPairs :
                      pair_name(SentPairs[i]) = s_apiSig}) = 1
    /\ \E i \in 1..(Len(SentPairs) - 1) :
         /\ pair_name(SentPairs[i]) = s_apiKey
         /\ pair_name(SentPairs[i + 1]) = s_apiSig
    /\ pair_name(SentPairs[Len(SentPairs)]) # s_apiSig
    /\ \E now \in Times :
         pairs_without(SentPairs, s_apiSig) =
           _sorted_str_kwargs(signed_kwargs(call.args.kwargs, now))

\* C2 witness: a signed request was sent whose query holds pairs that sort
\* after the apiSig pair.
C2_Witness ==
  /\ DirectRequest
  /\ Signed
  /\ s_handles \in names_of(SentPairs)
  /\ s_apiSig \in names_of(SentPairs)

\* C3: in a signed request apiSig is nonce + hexdigest(nonce + '/' + method +
\* '?' + C + '#' + secret), where the nonce is six characters of lowercase
\* letters and digits and C is the canonical encoding of exactly the pairs
\* that are sent beside apiSig: the non-None parameters of the call, lang,
\* apiKey and time, with the time value that is sent.
C3_SignatureOverWhatIsSent ==
  (DirectRequest /\ Signed) =>
    \E i \in DOMAIN SentPairs :
      /\ pair_name(SentPairs[i]) = s_apiSig
      /\ LET sig == pair_value(SentPairs[i])
             nonce == SubSeq(sig, 1, 6)
             others == pairs_without(SentPairs, s_apiSig)
             C == join(<<"&">>, others)
         IN  /\ Len(sig) > 6
             /\ \A k \in 1..6 :
                  \E a \in DOMAIN (ascii_lowercase \o digits) :
                    nonce[k] = (ascii_lowercase \o digits)[a]
             /\ sig = nonce \o sha512_hexdigest(
                          nonce \o <<"/">> \o call.args.method \o <<"?">>
                            \o C \o <<"#">> \o secret.v)
             /\ \E now \in Times :
                  /\ others =
                       _sorted_str_kwargs(signed_kwargs(call.args.kwargs, now))
                  /\ \E j \in DOMAIN others :
                       others[j] = s_time \o <<"=">> \o str_int(now)
             /\ {s_lang, s_time, s_apiKey} \subseteq names_of(others)

\* C3 witness: a signed request with a list parameter and a nonce that is not
\* all zeros was sent.
C3_Witness ==
  /\ DirectRequest
  /\ Signed
  /\ \E i \in DOMAIN SentPairs :
       /\ pair_name(SentPairs[i]) = s_apiSig
       /\ pair_value(SentPairs[i])[1] = "a"
  /\ \E i \in DOMAIN SentPairs :
       SentPairs[i] = s_handles \o <<"=">> \o s_tourist \o <<";">> \o s_Petr

\* C4: with no credential pair (key is None or secret is None, one of them
\* alone included) the query is the canonical encoding of the caller's
\* parameters with lang set to the configured language, and no pair is named
\* time, apiKey or apiSig; with both set, all three are present.
C4_UnsignedQuery ==
  DirectRequest =>
    LET kwargs == dict_set(call.args.kwargs, s_lang, PyStr(lang))
        present == {i \in DOMAIN kwargs : kwargs[i][2] # None}
        added == names_of(SentPairs) \cap {s_time, s_apiKey, s_apiSig}
    IN  IF Signed
        THEN added = {s_time, s_apiKey, s_apiSig}
        ELSE /\ added = {}
             /\ ascending(SentPairs)
             /\ Len(SentPairs) = Cardinality(present)
             /\ \A i \in present :
                  \E j \in DOMAIN SentPairs :
                    SentPairs[j] = _to_http(kwargs[i][1], kwargs[i][2])

\* C4 witness: a request was sent by a client that has a key and no secret.
C4_Witness ==
  /\ DirectRequest
  /\ key # None
  /\ secret = None
  /\ Len(SentPairs) = 3

\* C5 as claimed: on success request_api returns the result field of the
\* parsed response.
C5_Claimed_ReturnsResult ==
  (call.op = "request_api" /\ ret.kind = "return") =>
    /\ ret.value = sent[1].resp.body.v["result"]
    /\ last_api = sent[1].resp.body

\* C5 amended: on success request_api returns the whole parsed response, the
\* value it keeps in last_api, whose status is OK; the result field is read
\* from last_api by the endpoint methods.
C5_ReturnsWholeResponse ==
  (call.op = "request_api" /\ ret.kind = "return") =>
    /\ ret.value = sent[1].resp.body
    /\ last_api = sent[1].resp.body
    /\ ok(sent[1].resp)
    /\ ret.value.v["status"] = "OK"
    /\ "result" \in DOMAIN ret.value.v

\* C5 witness: request_api returned.
C5_Witness ==
  /\ call.op = "request_api"
  /\ ret.kind = "return"
  /\ last_api.t = "dict"
  /\ Len(last_api.v["result"].v) = 1

\* C6 as claimed: whenever a request the library issued, an API call or a page
\* fetch, got a non-success HTTP status, the call raised ConnectionError
\* carrying the status of that response.
C6_Claimed_StatusOfThatResponse ==
  (Len(sent) = 1 /\ ~ok(sent[1].resp)) =>
    ret = Raise("ConnectionError",
                <<"Request status is {}", sent[1].resp.status_code>>)

\* C7: when the HTTP status is a success and the status field of the parsed
\* JSON is not "OK", request_api and the endpoint methods raise
\* ConnectionError with the comment of the response as its detail, and return
\* no value.
C7_FailedStatusRaisesWithComment ==
  (/\ Len(sent) = 1
   /\ sent[1].link = "api"
   /\ ok(sent[1].resp)
   /\ sent[1].resp.body.v["status"] # "OK") =>
    /\ ret.kind = "raise"
    /\ ret = Raise("ConnectionError",
                   <<"Codeforces API error: {}",
                     sent[1].resp.body.v["comment"]>>)

\* C7 witness: an endpoint method got a FAILED response with HTTP status 200.
C7_Witness ==
  /\ call.op = "user_info"
  /\ Len(sent) = 1
  /\ sent[1].resp.status_code = 200
  /\ sent[1].resp.body.v["status"] = "FAILED"
  /\ ret.kind = "raise"

\* The call just made raised its validation error, issued no request and left
\* last_api as it was.
Refused ==
  /\ ret'.kind = "raise"
  /\ ret'.exc = "TypeError"
  /\ sent' = <<>>
  /\ last_api' = last_api

\* The call just made issued one request, for `method`.
Requested(method) == Len(sent') = 1 /\ sent'[1].path = method

\* C8: problemset_recentStatus with count > 1000, recentActions with
\* maxCount > 100, and user_info or contest_standings with more than 10000
\* handles raise a validation error, issue no request and leave last_api
\* unchanged; with the value at or under the cap (1000, 100, 10000 handles)
\* the request is issued.
C8_CapsCheckedBeforeRequest ==
  [][/\ call'.op = "problemset_recentStatus" =>
          IF call'.args.count > 1000
          THEN Refused ELSE Requested(m_problemset_recentStatus)
     /\ call'.op = "recentActions" =>
          IF call'.args.maxCount > 100
          THEN Refused ELSE Requested(m_recentActions)
     /\ call'.op = "user_info" =>
          IF Len(call'.args.handles.v) > 10000
          THEN Refused ELSE Requested(m_user_info)
     /\ call'.op = "contest_standings" =>
          IF Len(call'.args.handles.v) > 10000
          THEN Refused ELSE Requested(m_contest_standings)]_vars

\* C8 witness: after an earlier call left a parsed response in last_api,
\* problemset_recentStatus was refused for count = 1001.
C8_Witness ==
  /\ call.op = "problemset_recentStatus"
  /\ call.args.count = 1001
  /\ ret.kind = "raise"
  /\ sent = <<>>
  /\ last_api.t = "dict"

\* The handles user_info was called with, as a count.
AskedCount ==
  IF call.args.handles.t = "str" THEN 1 ELSE Len(call.args.handles.v)

UserInfoReturned == call.op = "user_info" /\ ret.kind = "return"

\* C9 as claimed: user_info returns a single User for one identifier and a
\* list of n elements for n > 1 identifiers, whatever the length of the
\* result in the response.
C9_Claimed_ShapeFollowsInput ==
  UserInfoReturned =>
    IF AskedCount = 1
    THEN ret.value.t = "User"
    ELSE ret.value.t = "list" /\ Len(ret.value.v) = AskedCount

\* C9 amended: user_info returns a single User exactly when the result of the
\* response has one element, and otherwise the list of the Users of the
\* result, in its order and of its length; so the shape follows the input
\* whenever the result has as many elements as the input.
C9_ShapeFollowsResult ==
  UserInfoReturned =>
    LET result == last_api.v["result"].v
    IN  /\ IF Len(result) = 1
           THEN ret.value = User(result[1])
           ELSE /\ ret.value.t = "list"
                /\ Len(ret.value.v) = Len(result)
                /\ \A i \in DOMAIN result : ret.value.v[i] = User(result[i])
        /\ (Len(result) = AskedCount /\ AskedCount = 1) =>
             ret.value.t = "User"
        /\ (Len(result) = AskedCount /\ AskedCount > 1) =>
             ret.value.t = "list" /\ Len(ret.value.v) = AskedCount

\* C9 witness: user_info was called with two handles and the response held
\* one user.
C9_Witness ==
  /\ UserInfoReturned
  /\ AskedCount = 2
  /\ Len(last_api.v["result"].v) = 1
  /\ ret.value.t = "User"

\* C10 as claimed: in every Hack built from a raw mapping with hacker,
\* defender and problem sub-mappings, hacker and defender are Party records
\* and problem is a Problem record.
C10_Claimed_HackOwnsTypedRecords ==
  (call.op = "contest_hacks" /\ ret.kind = "return") =>
    \A i \in DOMAIN ret.value.v :
      /\ ret.value.v[i].t = "Hack"
      /\ ret.value.v[i].v["hacker"].t = "Party"
      /\ ret.value.v[i].v["defender"].t = "Party"
      /\ ret.value.v[i].v["problem"].t = "Problem"

\* The attribute `name` of the record rec built from the raw mapping raw is
\* absent when raw has no such key, and otherwise the record of class cls
\* holding the items of raw's value.
wrapped_if_present(raw, rec, name, cls) ==
  IF name \in DOMAIN raw.v
  THEN /\ name \in DOMAIN rec.v
       /\ rec.v[name] = [t |-> cls, v |-> raw.v[name].v]
  ELSE name \notin DOMAIN rec.v

RecentActionsReturned == call.op = "recentActions" /\ ret.kind = "return"

\* C11: every RecentAction is built without failure from its raw mapping, with
\* comment a Comment record exactly when the mapping has a comment, blogEntry
\* a BlogEntry record exactly when the mapping has a blogEntry, no attribute
\* for an absent one, and every other key copied.
C11_RecentActionWrapsWhatIsPresent ==
  (/\ call.op = "recentActions"
   /\ Len(sent) = 1
   /\ ok(sent[1].resp)
   /\ sent[1].resp.body.v["status"] = "OK") =>
    /\ ret.kind = "return"
    /\ ret.value.t = "list"
    /\ LET result == last_api.v["result"].v
       IN  /\ Len(ret.value.v) = Len(result)
           /\ \A i \in DOMAIN result :
                LET raw == result[i]
                    rec == ret.value.v[i]
                IN  /\ rec.t = "RecentAction"
                    /\ wrapped_if_present(raw, rec, "comment", "Comment")
                    /\ wrapped_if_present(raw, rec, "blogEntry", "BlogEntry")
                    /\ DOMAIN rec.v = DOMAIN raw.v
                    /\ \A n \in DOMAIN raw.v \ {"comment", "blogEntry"} :
                         rec.v[n] = raw.v[n]

\* C11 witness: recentActions returned an action built from a mapping with
\* only a comment, followed by one built from a mapping with only a blogEntry.
C11_Witness ==
  /\ RecentActionsReturned
  /\ Len(ret.value.v) = 2
  /\ DOMAIN ret.value.v[1].v = {"timeSeconds", "comment"}
  /\ ret.value.v[1].v["comment"].t = "Comment"
  /\ DOMAIN ret.value.v[2].v = {"timeSeconds", "blogEntry"}
  /\ ret.value.v[2].v["blogEntry"].t = "BlogEntry"

\* The last call got a response with a success HTTP status and status "OK".
AnsweredOk ==
  /\ Len(sent) = 1
  /\ ok(sent[1].resp)
  /\ sent[1].resp.body.v["status"] = "OK"

GetUrlReturned == call.op = "_get_url" /\ ret.kind = "return"

\* The pairs of the encoded output that are named `name`.
pairs_named(name) ==
  {j \in DOMAIN query_pairs(ret.value) :
     pair_name(query_pairs(ret.value)[j]) = name}

\* C13: in the output of the encoder a key whose value is None names no pair,
\* and a key whose value is not None, False, 0 and the empty list included,
\* names exactly one pair, which holds the string form of the value.
C13_NoneDroppedOthersKept ==
  GetUrlReturned =>
    \A i \in DOMAIN call.args.kwargs :
      LET name == call.args.kwargs[i][1]
          value == call.args.kwargs[i][2]
      IN  /\ value = None => pairs_named(name) = {}
          /\ value # None => Cardinality(pairs_named(name)) = 1
          /\ value = PyBool(FALSE) =>
               \E j \in pairs_named(name) :
                 pair_value(query_pairs(ret.value)[j])
                   = <<"F", "a", "l", "s", "e">>
          /\ value = PyInt(0) =>
               \E j \in pairs_named(name) :
                 pair_value(query_pairs(ret.value)[j]) = <<"0">>
          /\ value = PyList(<<>>) =>
               \E j \in pairs_named(name) :
                 pair_value(query_pairs(ret.value)[j]) = <<>>

\* C13 witness: a mapping holding None, False and the empty list was encoded
\* into two pairs.
C13_Witness ==
  /\ GetUrlReturned
  /\ Len(call.args.kwargs) = 3
  /\ call.args.kwargs[1][2] = PyBool(FALSE)
  /\ call.args.kwargs[2][2] = None
  /\ call.args.kwargs[3][2] = PyList(<<>>)
  /\ Len(query_pairs(ret.value)) = 2

\* C14: for every item whose value is a list, the encoded output holds the
\* pair of the item's name and the string forms of the elements joined with
\* ';' in the order of the list, each element once per occurrence.
C14_ListJoinedInOrder ==
  GetUrlReturned =>
    \A i \in DOMAIN call.args.kwargs :
      LET name == call.args.kwargs[i][1]
          value == call.args.kwargs[i][2]
      IN  (value # None /\ value.t = "list") =>
            \E j \in pairs_named(name) :
              LET text == pair_value(query_pairs(ret.value)[j])
              IN  IF value.v = <<>> THEN text = <<>>
                  ELSE split(text, ";") =
                         [k \in DOMAIN value.v |-> str(value.v[k])]

\* C14 witness: the list ['Petr', 7, 'Petr'] was encoded as handles=Petr;7;Petr.
C14_Witness ==
  /\ GetUrlReturned
  /\ \E i \in DOMAIN call.args.kwargs :
       /\ call.args.kwargs[i][1] = s_handles
       /\ call.args.kwargs[i][2] =
            PyList(<<PyStr(s_Petr), PyInt(7), PyStr(s_Petr)>>)
  /\ \E j \in pairs_named(s_handles) :
       query_pairs(ret.value)[j] =
         s_handles \o <<"=">> \o s_Petr \o <<";", "7", ";">> \o s_Petr

\* An API request was issued by the call made last.
ApiRequest == Len(sent) = 1 /\ sent[1].link = "api"

\* The pair that carries the configured language.
LangPair == s_lang \o <<"=">> \o lang

\* C15: every query of an API request, signed or not, holds exactly one pair
\* named lang, its value is the configured language whatever lang the caller
\* passed, it stands at its sorted place among the pairs, and in a signed
\* request it is part of the text that is hashed into apiSig.
C15_LangAlwaysSent ==
  ApiRequest =>
    /\ Cardinality({i \in DOMAIN SentPairs :
                      pair_name(SentPairs[i]) = s_lang}) = 1
    /\ \E i \in DOMAIN SentPairs : SentPairs[i] = LangPair
    /\ ascending(SentPairs)
    /\ Signed =>
         LET hashed == pairs_without(SentPairs, s_apiSig)
             sig == pair_value(
                      SentPairs[CHOOSE i \in DOMAIN SentPairs :
                                  pair_name(SentPairs[i]) = s_apiSig])
             nonce == SubSeq(sig, 1, 6)
         IN  /\ \E i \in DOMAIN hashed : hashed[i] = LangPair
             /\ sig = nonce \o sha512_hexdigest(
                          nonce \o <<"/">> \o sent[1].path \o <<"?">>
                            \o join(<<"&">>, hashed) \o <<"#">> \o secret.v)

\* C15 witness: a signed request_api call that passed lang='ru' on a client
\* configured for 'en' sent lang=en.
C15_Witness ==
  /\ DirectRequest
  /\ Signed
  /\ lang = s_en
  /\ \E i \in DOMAIN call.args.kwargs :
       call.args.kwargs[i] = <<s_lang, PyStr(s_ru)>>
  /\ \E i \in DOMAIN SentPairs : SentPairs[i] = s_lang \o <<"=">> \o s_en

\* C16: an assignment to lang of a value other than 'en' and 'ru' raises the
\* validation error and leaves the configured language as it was, an
\* assignment of 'en' or 'ru' stores it, and so the configured language of a
\* constructed client is 'en' or 'ru' after any assignments.
C16_LangStaysValid ==
  /\ [](lang \in {s_en, s_ru})
  /\ [][call'.op = "lang.setter" =>
          IF call'.args.value \in {s_en, s_ru}
          THEN lang' = call'.args.value /\ ret'.kind = "return"
          ELSE /\ ret'.kind = "raise"
               /\ ret'.exc = "TypeError"
               /\ lang' = lang]_vars

\* C16 witness: on a client whose language had been set to 'ru', the
\* assignment of 'de' was refused.
C16_Witness ==
  /\ call.op = "lang.setter"
  /\ call.args.value = <<"d", "e">>
  /\ ret.kind = "raise"
  /\ ret.exc = "TypeError"
  /\ lang = s_ru

\* The response thread t received was a success with status "OK".
ReceivedOk(t) ==
  /\ threads[t].resp # NoAttr
  /\ ok(threads[t].resp)
  /\ threads[t].resp.body.v["status"] = "OK"

\* The records built from the response thread t received.
OwnComments(t) == Comments(threads[t].resp.body.v["result"])

\* C17: two calls running at once share last_api without synchronisation: a
\* call builds what it returns from the value last_api holds at the moment
\* the call reads it, whichever call stored it, so the records a call returns
\* are those of its own response or those of the other call's response.
C17_ReturnsWhatLastApiHolds ==
  /\ [](\A t \in DOMAIN threads :
          (threads[t].pc = "done" /\ threads[t].ret.kind = "return") =>
            \E u \in DOMAIN threads :
              ReceivedOk(u) /\ threads[t].ret.value = OwnComments(u))
  /\ [][\A t \in DOMAIN threads :
          (threads[t].pc = "result" /\ threads'[t].pc = "done") =>
            IF last_api.t = "dict" /\ "result" \in DOMAIN last_api.v
            THEN threads'[t].ret = Return(Comments(last_api.v["result"]))
            ELSE threads'[t].ret.kind = "raise"]_vars

\* C17 witness: the first call received its own successful response, the
\* second call overwrote last_api before the first read it, and the first
\* call returned the records of the second call's response, which are not
\* those of its own.
C17_Witness ==
  /\ Len(threads) = 2
  /\ threads[1].pc = "done"
  /\ threads[1].ret.kind = "return"
  /\ ReceivedOk(1)
  /\ ReceivedOk(2)
  /\ threads[1].ret.value = OwnComments(2)
  /\ threads[1].ret.value # OwnComments(1)

EndpointCall ==
  call.op \in {"contest_hacks", "contest_standings",
               "problemset_recentStatus", "recentActions"}

\* C18: an endpoint method call that passed its validation has issued exactly
\* one HTTP request when it ends, and it ends by raising the error of the
\* first step that failed (the HTTP status, then the status of the JSON) or
\* by returning the records it built; a failure is followed by no second
\* request.
C18_OneRequestNoRetry ==
  EndpointCall =>
    /\ Len(sent) = 1
    /\ sent[1].link = "api"
    /\ IF ~ok(sent[1].resp)
       THEN ret = Raise("ConnectionError",
                        <<"Request status is {}", sent[1].resp.status_code>>)
       ELSE IF sent[1].resp.body.v["status"] # "OK"
       THEN ret = Raise("ConnectionError",
                        <<"Codeforces API error: {}",
                          sent[1].resp.body.v["comment"]>>)
       ELSE ret.kind = "return" /\ ret.value.t = "list"

\* C18 witness: contest_standings got HTTP status 400 and raised after its
\* one request.
C18_Witness ==
  /\ call.op = "contest_standings"
  /\ Len(sent) = 1
  /\ sent[1].resp.status_code = 400
  /\ ret.kind = "raise"

\* The argument the call made last passed for the first row or submission.
FromArg ==
  IF call.op = "contest_standings" THEN call.args.from_row
  ELSE call.args.from_sub

\* C19: contest_standings sends from_row, and contest_status and user_status
\* send from_sub, under the name `from`: the query holds the pair from=<v>
\* exactly when the argument is not None, and never a pair named from_row or
\* from_sub; user_ratedList sends active_only under the name activeOnly.
C19_RenamedParameters ==
  ApiRequest =>
    /\ names_of(SentPairs) \cap {s_from_row, s_from_sub, s_active_only} = {}
    /\ call.op \in {"contest_standings", "contest_status", "user_status"} =>
         IF FromArg = None
         THEN s_from \notin names_of(SentPairs)
         ELSE /\ \E i \in DOMAIN SentPairs :
                   SentPairs[i] = <<"f", "r", "o", "m", "=">> \o str(FromArg)
              /\ Cardinality({i \in DOMAIN SentPairs :
                                pair_name(SentPairs[i]) = s_from}) = 1
    /\ call.op = "user_ratedList" =>
         \E i \in DOMAIN SentPairs :
           SentPairs[i] =
             <<"a", "c", "t", "i", "v", "e", "O", "n", "l", "y", "=">>
               \o str(call.args.active_only)

\* C19 witness: user_status(handle, from_sub=1, count=None) sent from=1.
C19_Witness ==
  /\ call.op = "user_status"
  /\ call.args.from_sub = PyInt(1)
  /\ call.args.count = None
  /\ ApiRequest
  /\ \E i \in DOMAIN SentPairs : SentPairs[i] = <<"f", "r", "o", "m", "=", "1">>

\* The typed record of class cls holding the items of the raw mapping raw.
typed(cls, raw) == [t |-> cls, v |-> raw.v]

\* The list of the typed records of the elements of a raw list, in its order.
typed_list(cls, lst) == PyList([i \in DOMAIN lst.v |-> typed(cls, lst.v[i])])

\* A raw party that has its members, and the Party record expected of it:
\* every key of the raw mapping, members as Member records.
has_members(raw) == "members" \in DOMAIN raw.v
expected_party(raw) ==
  [t |-> "Party",
   v |-> [n \in DOMAIN raw.v |->
            IF n = "members" THEN typed_list("Member", raw.v[n])
            ELSE raw.v[n]]]

\* Whether the raw mapping of the constructor call holds every designated
\* sub-field, at every depth.
DesignatedPresent ==
  LET raw == call.args.json
  IN  CASE call.op = "Party" -> has_members(raw)
        [] call.op = "Submission" ->
             /\ {"problem", "author"} \subseteq DOMAIN raw.v
             /\ has_members(raw.v["author"])
        [] call.op = "RanklistRow" ->
             /\ {"party", "problemResults"} \subseteq DOMAIN raw.v
             /\ has_members(raw.v["party"])

\* The record expected of the constructor call.
ExpectedRecord ==
  LET raw == call.args.json
  IN  CASE call.op = "Party" -> expected_party(raw)
        [] call.op = "Submission" ->
             [t |-> "Submission",
              v |-> [n \in DOMAIN raw.v |->
                       CASE n = "problem" -> typed("Problem", raw.v[n])
                         [] n = "author" -> expected_party(raw.v[n])
                         [] OTHER -> raw.v[n]]]
        [] call.op = "RanklistRow" ->
             [t |-> "RanklistRow",
              v |-> [n \in DOMAIN raw.v |->
                       CASE n = "party" -> expected_party(raw.v[n])
                         [] n = "problemResults" ->
                              typed_list("ProblemResult", raw.v[n])
                         [] OTHER -> raw.v[n]]]

ConstructorEnded ==
  call.op \in {"Party", "Submission", "RanklistRow"} /\ ret # Pending

\* C20: Party, Submission and RanklistRow built from a raw mapping hold
\* exactly the keys of the mapping (an undocumented key is kept as it came, an
\* absent optional key gives no attribute), with members, problem, author,
\* party and problemResults replaced by typed records at every depth in the
\* raw order; the construction raises exactly when one of those sub-fields is
\* absent.
C20_CompositeRecords ==
  ConstructorEnded =>
    IF DesignatedPresent
    THEN /\ ret.kind = "return"
         /\ ret.value = ExpectedRecord
         /\ DOMAIN ret.value.v = DOMAIN call.args.json.v
    ELSE ret.kind = "raise" /\ ret.exc = "AttributeError"

\* C20 witness: a Submission was built from a mapping with an undocumented
\* key whose author has two members.
C20_Witness ==
  /\ call.op = "Submission"
  /\ ret.kind = "return"
  /\ "extra" \in DOMAIN ret.value.v
  /\ ret.value.v["problem"].t = "Problem"
  /\ ret.value.v["author"].t = "Party"
  /\ Len(ret.value.v["author"].v["members"].v) = 2
  /\ ret.value.v["author"].v["members"].v[2].t = "Member"

-----------------------------------------------------------------------------
\* What last_api holds once a request was answered with resp: the parsed JSON
\* when the HTTP status is a success, the response itself when it is not.
Reflects(resp) == IF ok(resp) THEN resp.body ELSE resp

\* The value an endpoint method builds from the result field of a response.
BuiltFrom(op, result) ==
  CASE op = "user_info" -> user_records(result)
    [] op = "contest_standings" -> standings_records(result)
    [] op = "problemset_recentStatus" -> Submissions(result)
    [] op = "recentActions" -> RecentActionList(result)

EndpointOps ==
  {"user_info", "contest_standings", "problemset_recentStatus",
   "recentActions"}

\* A call that issues a request replaces last_api by what that request got,
\* whatever last_api held; a call that issues none leaves it.
OverwrittenWholesale ==
  /\ sent' # <<>> => /\ Len(sent') = 1
                     /\ last_api' = Reflects(sent'[1].resp)
  /\ sent' = <<>> => last_api' = last_api

\* C21: on a client used for any sequence of calls from one thread, each
\* call that reaches the network overwrites last_api with the outcome of its
\* own request (the parsed JSON after a success or a failure reported in the
\* JSON status, the raw response after an HTTP-level failure) whatever an
\* earlier request left there, a call refused before the network leaves
\* last_api alone, and every endpoint call that returns gives the records
\* built from the result of the response to its own request.
C21_LastApiOfTheLatestRequest ==
  /\ [](sent # <<>> => last_api = Reflects(sent[1].resp))
  /\ [](call.op \in EndpointOps /\ ret.kind = "return" =>
          /\ Len(sent) = 1
          /\ ret.value = BuiltFrom(call.op, sent[1].resp.body.v["result"]))
  /\ [][OverwrittenWholesale]_vars

\* A request failed at the HTTP level and a later recentActions call was
\* refused for its maxCount: last_api still is the raw response of the
\* request that reached the network.
C21_Witness ==
  /\ call.op = "recentActions"
  /\ sent = <<>>
  /\ IsRaise(ret) /\ ret.exc = "TypeError"
  /\ last_api.t = "Response"
  /\ ~ok(last_api)

-----------------------------------------------------------------------------
\* The call made last issued its one request to the API.
ApiRequestSent ==
  call.op \in {"request_api", "user_info"} /\ Len(sent) = 1
    /\ sent[1].link = "api"

\* The keyword arguments that call handed to request_api.
PassedKwargs ==
  IF call.op = "request_api" THEN call.args.kwargs
  ELSE <<<<s_handles, IF call.args.handles.t = "str"
                      THEN PyList(<<call.args.handles>>)
                      ELSE call.args.handles>>>>

\* A digest's worth of one fixed hex digit.
Filler == [i \in 1..HexLen |-> "0"]

\* The pairs of a query with the digest part of the apiSig value (what
\* follows the nonce) replaced by the filler.
DigestMasked(pairs) ==
  [i \in DOMAIN pairs |->
     IF pair_name(pairs[i]) = s_apiSig
     THEN s_apiSig \o <<"=">> \o SubSeq(pair_value(pairs[i]), 1, NonceLen)
            \o Filler
     ELSE pairs[i]]

IsHex(s) == \A i \in DOMAIN s : \E h \in DOMAIN hexdigits : s[i] = hexdigits[h]

\* C22: the secret is no parameter name and no parameter value of a query
\* that is sent, and the query is, outside the digest part of the apiSig
\* value, a function of the method's parameters, the language, the key, the
\* time and the nonce alone (of the parameters and the language alone when
\* the request is not signed): the secret has no part in it, so two clients
\* that differ only in their secret send, for the same nonce and time,
\* queries that are equal outside the digest, which is as many hex digits
\* whatever the secret.
C22_SecretOnlyInTheDigest ==
  ApiRequestSent =>
    /\ secret # None =>
          \A i \in DOMAIN SentPairs :
            /\ pair_name(SentPairs[i]) # secret.v
            /\ pair_value(SentPairs[i]) # secret.v
    /\ Signed =>
          /\ \E now \in Times, rand \in Nonces :
               DigestMasked(SentPairs) =
                 _sorted_str_kwargs(
                   dict_set(signed_kwargs(PassedKwargs, now), s_apiSig,
                            PyStr(rand \o Filler)))
          /\ \A i \in DOMAIN SentPairs :
               pair_name(SentPairs[i]) = s_apiSig =>
                 LET sig == pair_value(SentPairs[i])
                 IN  /\ Len(sig) = NonceLen + HexLen
                     /\ IsHex(SubSeq(sig, NonceLen + 1, Len(sig)))
    /\ ~Signed =>
          SentPairs =
            _sorted_str_kwargs(dict_set(PassedKwargs, s_lang, PyStr(lang)))

\* A signed request of a client whose secret is the second one was sent, and
\* its digest is not the one the client with the first secret sends for the
\* same parameters, time and nonce.
C22_Witness ==
  /\ DirectRequest
  /\ Signed
  /\ secret = PyStr(s_xyw)
  /\ \E i \in DOMAIN SentPairs :
       /\ pair_name(SentPairs[i]) = s_apiSig
       /\ LET sig == pair_value(SentPairs[i])
              hashed == SubSeq(sig, 1, NonceLen) \o <<"/">>
                          \o call.args.method \o <<"?">>
                          \o join(<<"&">>, pairs_without(SentPairs, s_apiSig))
                          \o <<"#">>
          IN  /\ SubSeq(sig, NonceLen + 1, Len(sig))
                   = sha512_hexdigest(hashed \o s_xyw)
              /\ sha512_hexdigest(hashed \o s_xyw)
                   # sha512_hexdigest(hashed \o s_xyz)

=============================================================================
